---- MODULE Spec2Model ----
(***************************************************************************)
(* DayPlanner (src/dayplanner.py): one Streamlit script.  Every user       *)
(* interaction reruns day_planner() from the top: brain_dump,              *)
(* prioritize_tasks, create_schedule, review_schedule, in that order, on   *)
(* the session state left by the previous run.  An uncaught exception      *)
(* ends the run where it is raised.                                        *)
(*                                                                         *)
(* Time is counted in minutes since midnight of day 0 (UTC); a datetime    *)
(* with second = microsecond = 0 is one such number, and the clock's value *)
(* is the minute it is in: a reminder time, which has no seconds, is later *)
(* than utcnow() exactly when its minute is later than the clock's.        *)
(***************************************************************************)
EXTENDS Integers, Sequences, FiniteSets, TLC

VARIABLES
    session_keys,       \* the keys present in st.session_state
    tasks,              \* st.session_state["tasks"]
    categorized_tasks,  \* st.session_state["categorized_tasks"]
    schedule,           \* st.session_state["schedule"]
    history_file,       \* schedule_history.json on disk
    now,                \* the UTC clock, datetime.datetime.utcnow()
    pc,                 \* where the current run of day_planner() stands
    error,              \* the exception that ended the current run, or "none"
    runs,               \* how many runs of the script have been started
    use_calendar,       \* create_schedule: the "Sync with Google Calendar" box
    time_slot,          \* create_schedule: the cursor
    sched,              \* create_schedule: the local list `schedule`
    idx,                \* create_schedule: how many tasks the loops have passed
    durations,          \* the slider values read so far in this run
    calendar_calls,     \* the add_to_calendar calls made by this run
    notified,           \* the send_notification calls made by this run
    pre                 \* the session schedule and the log as the run found them

vars == << session_keys, tasks, categorized_tasks, schedule, history_file, now,
           pc, error, runs, use_calendar, time_slot, sched, idx, durations,
           calendar_calls, notified, pre >>

(***************************************************************************)
(* Bounds of the model and constants of the program.                       *)
(***************************************************************************)
MaxLines == 2        \* lines typed in the text area
MaxRuns == 2         \* runs of the script in one behaviour
MaxTicks == 2        \* clock steps in one behaviour
LongN == 9           \* tasks of the long planning day (SpecLong)

AnchorHour == 8      \* now.replace(hour=8, minute=0)
ReminderLead == 5    \* datetime.timedelta(minutes=5)
SliderMin == 15
SliderMax == 120
SliderStep == 15

MinutesPerDay == 24 * 60
TickMinutes == ReminderLead
ClockStart == AnchorHour * 60 - 2 * ReminderLead    \* 07:50 on day 0

Categories == << "Urgent", "Important", "Nice-to-Have" >>
CategorySet == { Categories[i] : i \in 1..3 }

SliderValues ==
    { v \in SliderMin..SliderMax : (v - SliderMin) % SliderStep = 0 }

\* The slider values the model tries.
SliderChoices ==
    { v \in SliderValues : v \in { SliderMin, SliderMin + SliderStep, SliderMax } }

Range(s) == { s[i] : i \in DOMAIN s }

(***************************************************************************)
(* brain_dump: the text area and its parsing.  A line is a sequence of     *)
(* characters; a task is a stripped, non-empty line.                       *)
(***************************************************************************)
IsSpace(c) == c = " "

RECURSIVE LStrip(_)
LStrip(line) ==
    IF line # << >> /\ IsSpace(Head(line)) THEN LStrip(Tail(line)) ELSE line

RECURSIVE RStrip(_)
RStrip(line) ==
    IF line # << >> /\ IsSpace(line[Len(line)])
    THEN RStrip(SubSeq(line, 1, Len(line) - 1))
    ELSE line

Strip(line) == RStrip(LStrip(line))

RECURSIVE ParseTasks(_)
ParseTasks(lines) ==
    IF lines = << >> THEN << >>
    ELSE IF Strip(Head(lines)) # << >>
         THEN << Strip(Head(lines)) >> \o ParseTasks(Tail(lines))
         ELSE ParseTasks(Tail(lines))

LineInputs ==
    { << >>, << " " >>, << " ", "a", " " >>, << "b" >> }

TextInputs == UNION { [1..n -> LineInputs] : n \in 0..MaxLines }

LongText == [i \in 1..LongN |-> [j \in 1..i |-> "a"]]

\* What "Submit Tasks" can store, for the texts the model types.
SubmittedTasks == { ParseTasks(text) : text \in TextInputs }
SubmittedLongTasks == { ParseTasks(LongText) }

(***************************************************************************)
(* prioritize_tasks                                                        *)
(***************************************************************************)
HasDuplicateKey(ts) ==
    \E i, j \in DOMAIN ts : i < j /\ ts[i] = ts[j]

RECURSIVE SelectCategory(_, _, _)
SelectCategory(ts, choice, category) ==
    IF ts = << >> THEN << >>
    ELSE IF choice[Head(ts)] = category
         THEN << Head(ts) >> \o SelectCategory(Tail(ts), choice, category)
         ELSE SelectCategory(Tail(ts), choice, category)

\* Mutant: the last radio option has no bucket.
CategorizeWithoutLastBucket(ts, choice) ==
    [c \in CategorySet |->
        IF c = Categories[3] THEN << >> ELSE SelectCategory(ts, choice, c)]

Categorize(ts, choice) ==
    [c \in CategorySet |-> SelectCategory(ts, choice, c)]

NoBuckets == [c \in CategorySet |-> << >>]

\* The radio selections a run may find: any, or (the long day) one category
\* for all tasks.
RadioChoices(ts, uniform) ==
    IF uniform
    THEN { [t \in Range(ts) |-> c] : c \in CategorySet }
    ELSE [Range(ts) -> CategorySet]

(***************************************************************************)
(* create_schedule                                                         *)
(***************************************************************************)
Anchor(t) == (t \div MinutesPerDay) * MinutesPerDay + AnchorHour * 60

Strftime(t) ==
    LET h == (t % MinutesPerDay) \div 60
    IN  [I |-> IF h % 12 = 0 THEN 12 ELSE h % 12,
         M |-> t % 60,
         p |-> IF h < 12 THEN "AM" ELSE "PM"]

DateOf(t) == t \div MinutesPerDay

\* Mutant: the outer loop walks the buckets in another order.
PendingImportantFirst ==
    categorized_tasks["Important"] \o categorized_tasks["Urgent"]
        \o categorized_tasks["Nice-to-Have"]

Pending ==
    categorized_tasks["Urgent"] \o categorized_tasks["Important"]
        \o categorized_tasks["Nice-to-Have"]

ReminderTime(slot) == slot - ReminderLead

\* Mutant: a reminder due this very minute still goes out.
ShouldNotifyWhenDue(reminder_time, clock) == reminder_time >= clock

ShouldNotify(reminder_time, clock) == reminder_time > clock

\* Mutant: the cursor moves by the slider's default, not by its value.
NextSlotByDefault(slot, duration) == slot + 3 * SliderStep

NextSlot(slot, duration) == slot + duration

RECURSIVE SumSeq(_)
SumSeq(s) == IF s = << >> THEN 0 ELSE Head(s) + SumSeq(Tail(s))

\* Mutant: the loop body swallows the exception.
PropagateSwallowed(e) == "loop"

\* Nothing in create_schedule catches: a raised exception leaves the loops.
Propagate(e) == IF e = "none" THEN "loop" ELSE "halted"

(***************************************************************************)
(* save_schedule and load_schedule_history.  The file is missing, holds a  *)
(* JSON array of records, or holds something json.load rejects.            *)
(***************************************************************************)
NoFile == [state |-> "missing", records |-> << >>]
CorruptFile == [state |-> "corrupt", records |-> << >>]
EmptyFile == [state |-> "empty", records |-> << >>]
ValidFile(rs) == [state |-> "valid", records |-> rs]

Parses(file) == file.state \in { "missing", "valid" }

LoadScheduleHistory(file) ==
    IF file.state = "missing" THEN << >> ELSE file.records

HistoryRecord(day, s) == [date |-> day, tasks |-> s]

\* Mutant: the log is rewritten with the new record alone.
AppendRecordOverwriting(history, record) == << record >>

\* Mutant: a record of the date of the last one replaces it.
AppendRecordMergingDate(history, record) ==
    IF history # << >> /\ history[Len(history)].date = record.date
    THEN Append(SubSeq(history, 1, Len(history) - 1), record)
    ELSE Append(history, record)

AppendRecord(history, record) == Append(history, record)

\* Mutant: the file is opened for writing before it is read.
SaveScheduleTruncating(file, s, day) ==
    IF Parses(file)
    THEN [ok |-> TRUE,
          file |-> ValidFile(AppendRecord(LoadScheduleHistory(file),
                                          HistoryRecord(day, s)))]
    ELSE [ok |-> FALSE, file |-> EmptyFile]

SaveSchedule(file, s, day) ==
    IF Parses(file)
    THEN [ok |-> TRUE,
          file |-> ValidFile(AppendRecord(LoadScheduleHistory(file),
                                          HistoryRecord(day, s)))]
    ELSE [ok |-> FALSE, file |-> file]

(***************************************************************************)
(* The state after the script is loaded and before its first run.          *)
(***************************************************************************)
NoPre == [has |-> FALSE, schedule |-> << >>, file |-> NoFile]

InitSession ==
    /\ session_keys = {}
    /\ tasks = << >>
    /\ categorized_tasks = NoBuckets
    /\ schedule = << >>
    /\ now = ClockStart
    /\ pc = "idle"
    /\ error = "none"
    /\ runs = 0
    /\ use_calendar = FALSE
    /\ time_slot = 0
    /\ sched = << >>
    /\ idx = 0
    /\ durations = << >>
    /\ calendar_calls = << >>
    /\ notified = << >>
    /\ pre = NoPre

Init ==
    /\ InitSession
    /\ history_file \in { NoFile, ValidFile(<< >>), CorruptFile }

Locals == << use_calendar, time_slot, sched, idx, durations, calendar_calls, notified >>
Session == << session_keys, tasks, categorized_tasks, schedule >>

ResetLocals ==
    /\ use_calendar' = FALSE
    /\ time_slot' = 0
    /\ sched' = << >>
    /\ idx' = 0
    /\ durations' = << >>
    /\ calendar_calls' = << >>
    /\ notified' = << >>

\* The clock moves on between any two steps.
Tick ==
    /\ now + TickMinutes <= ClockStart + MaxTicks * TickMinutes
    /\ now' = now + TickMinutes
    /\ UNCHANGED << Session, history_file, pc, error, runs, Locals, pre >>

\* A user interaction starts a run; brain_dump is its first section.
BrainDump(submitted, maxRuns) ==
    /\ pc \in { "idle", "halted" }
    /\ runs < maxRuns
    /\ \E submit \in BOOLEAN :
          IF submit
          THEN /\ \E entered \in submitted : tasks' = entered
               /\ session_keys' = session_keys \cup { "tasks" }
          ELSE UNCHANGED << tasks, session_keys >>
    /\ runs' = runs + 1
    /\ pc' = "prioritize"
    /\ error' = "none"
    /\ pre' = [has |-> "schedule" \in session_keys,
               schedule |-> schedule,
               file |-> history_file]
    /\ ResetLocals
    /\ UNCHANGED << categorized_tasks, schedule, history_file, now >>

\* One radio per task, keyed by the task: Streamlit refuses a second widget
\* with a key already used in the run.
PrioritizeTasks(uniform) ==
    /\ pc = "prioritize"
    /\ IF "tasks" \notin session_keys
       THEN /\ pc' = "create"
            /\ UNCHANGED << categorized_tasks, session_keys, error >>
       ELSE IF HasDuplicateKey(tasks)
       THEN /\ error' = "DuplicateWidgetID"
            /\ pc' = "halted"
            /\ UNCHANGED << categorized_tasks, session_keys >>
       ELSE /\ \E choice \in RadioChoices(tasks, uniform) :
                  categorized_tasks' = Categorize(tasks, choice)
            /\ session_keys' = session_keys \cup { "categorized_tasks" }
            /\ pc' = "create"
            /\ UNCHANGED error
    /\ UNCHANGED << tasks, schedule, history_file, now, runs, Locals, pre >>

\* create_schedule up to its loops: the checkbox, the sign-in, the cursor.
CreateScheduleBegin(calendarOffered) ==
    /\ pc = "create"
    /\ IF "categorized_tasks" \notin session_keys
       THEN /\ pc' = "review"
            /\ UNCHANGED << use_calendar, time_slot, sched, idx, error >>
       ELSE \E box \in calendarOffered, signed_in \in BOOLEAN :
               /\ use_calendar' = box
               /\ IF box /\ ~signed_in
                  THEN /\ error' = "AuthError"
                       /\ pc' = "halted"
                       /\ UNCHANGED << time_slot, sched, idx >>
                  ELSE /\ (~box => signed_in)
                       /\ time_slot' = Anchor(now)
                       /\ sched' = << >>
                       /\ idx' = 0
                       /\ pc' = "loop"
                       /\ UNCHANGED error
    /\ UNCHANGED << Session, history_file, now, runs, durations,
                    calendar_calls, notified, pre >>

\* One pass of the loop body, for the next task in bucket order: the slider,
\* the slot, the calendar event (the service exists whenever the box is
\* ticked and the run got this far), the reminder, the cursor.
ScheduleTask(sliderChoices, mayFail) ==
    /\ pc = "loop"
    /\ idx < Len(Pending)
    /\ LET task == Pending[idx + 1]
           time_str == Strftime(time_slot)
       IN  \E duration \in sliderChoices, inserted \in mayFail, shown \in mayFail :
              LET wantsEvent == use_calendar
                  wantsNote == ShouldNotify(ReminderTime(time_slot), now)
                  e == IF wantsEvent /\ ~inserted THEN "CalendarError"
                       ELSE IF wantsNote /\ ~shown THEN "NotificationError"
                       ELSE "none"
              IN  /\ (~wantsEvent => inserted)
                  /\ (~(wantsNote /\ e # "CalendarError") => shown)
                  /\ durations' = Append(durations, duration)
                  /\ sched' = Append(sched, << time_str, task >>)
                  /\ calendar_calls' =
                        IF wantsEvent
                        THEN Append(calendar_calls,
                                    [task |-> task, start |-> time_slot,
                                     duration |-> duration, ok |-> inserted])
                        ELSE calendar_calls
                  /\ notified' =
                        IF wantsNote /\ e # "CalendarError"
                        THEN Append(notified, [task |-> task, time |-> time_str])
                        ELSE notified
                  /\ error' = e
                  /\ pc' = Propagate(e)
                  /\ IF Propagate(e) = "loop"
                     THEN /\ time_slot' = NextSlot(time_slot, duration)
                          /\ idx' = idx + 1
                     ELSE UNCHANGED << time_slot, idx >>
    /\ UNCHANGED << Session, history_file, now, runs, use_calendar, pre >>

\* After the loops: the schedule goes to the session, then to the log.
CreateScheduleEnd ==
    /\ pc = "loop"
    /\ idx = Len(Pending)
    /\ schedule' = sched
    /\ session_keys' = session_keys \cup { "schedule" }
    /\ LET saved == SaveSchedule(history_file, sched, DateOf(now))
       IN  /\ history_file' = saved.file
           /\ error' = IF saved.ok THEN "none" ELSE "HistoryError"
           /\ pc' = IF saved.ok THEN "review" ELSE "halted"
    /\ UNCHANGED << tasks, categorized_tasks, now, runs, Locals, pre >>

\* review_schedule keeps nothing: completed_tasks is a local, and "Save
\* Review" only shows a message.  The run ends.
ReviewSchedule ==
    /\ pc = "review"
    /\ \E completed \in SUBSET { s[2] : s \in Range(schedule) }, save \in BOOLEAN :
          ("schedule" \notin session_keys) => (completed = {} /\ ~save)
    /\ pc' = "idle"
    /\ ResetLocals
    /\ UNCHANGED << Session, history_file, now, error, runs, pre >>

Next ==
    \/ Tick
    \/ BrainDump(SubmittedTasks, MaxRuns)
    \/ PrioritizeTasks(FALSE)
    \/ CreateScheduleBegin(BOOLEAN)
    \/ ScheduleTask(SliderChoices, BOOLEAN)
    \/ CreateScheduleEnd
    \/ ReviewSchedule

Spec == Init /\ [][Next]_vars

(***************************************************************************)
(* The long planning day: LongN tasks typed at once, one category for all, *)
(* each slider at its minimum or its maximum, no calendar, one run.        *)
(***************************************************************************)
InitLong ==
    /\ InitSession
    /\ history_file = NoFile

NextLong ==
    \/ BrainDump(SubmittedLongTasks, 1)
    \/ PrioritizeTasks(TRUE)
    \/ CreateScheduleBegin({ FALSE })
    \/ ScheduleTask({ SliderMin, SliderMax }, { TRUE })
    \/ CreateScheduleEnd
    \/ ReviewSchedule

SpecLong == InitLong /\ [][NextLong]_vars

(***************************************************************************)
(* Properties.                                                             *)
(***************************************************************************)
\* A recorded start time ("%I:%M %p") read back as minutes after midnight.
ClockMinutes(time_str) ==
    ((time_str.I % 12) + (IF time_str.p = "PM" THEN 12 ELSE 0)) * 60 + time_str.M

IndexOf(ts, t) == CHOOSE i \in DOMAIN ts : ts[i] = t

BucketsHolding(t) == { c \in CategorySet : t \in Range(categorized_tasks[c]) }

Rank(t) == CHOOSE r \in 1..3 : t \in Range(categorized_tasks[Categories[r]])

\* The run has passed create_schedule's last line.
Produced == pc = "review" /\ "schedule" \in session_keys

\* prioritize_tasks has returned in this run, on a submitted task list.
Prioritized ==
    /\ "tasks" \in session_keys
    /\ \/ pc \in { "create", "loop", "review" }
       \/ pc = "halted" /\ error # "DuplicateWidgetID"

\* C1: in the list create_schedule builds, and in the schedule it produces,
\* the first slot starts at 08:00 and every next slot starts where the slot
\* before it started plus the duration chosen for that slot's task.
C1_SlotsAreContiguous ==
    /\ Len(durations) = Len(sched)
    /\ sched # << >> => ClockMinutes(sched[1][1]) = AnchorHour * 60
    /\ \A i \in 1..(Len(sched) - 1) :
          ClockMinutes(sched[i + 1][1]) =
             (ClockMinutes(sched[i][1]) + durations[i]) % MinutesPerDay
    /\ Produced => schedule = sched
    /\ pc = "loop" =>
          time_slot % MinutesPerDay =
             (AnchorHour * 60 + SumSeq(durations)) % MinutesPerDay

C1_Witness ==
    /\ Produced
    /\ Len(schedule) = 2
    /\ durations[1] = SliderMax
    /\ ClockMinutes(schedule[2][1]) = AnchorHour * 60 + SliderMax

\* C2: in a produced schedule every Urgent task comes before every Important
\* one and those before every Nice-to-Have one, and two tasks of one bucket
\* come in the order of the submitted task list.
C2_BucketThenInputOrder ==
    Produced =>
       \A i, j \in DOMAIN schedule :
          i < j =>
             \/ Rank(schedule[i][2]) < Rank(schedule[j][2])
             \/ /\ Rank(schedule[i][2]) = Rank(schedule[j][2])
                /\ IndexOf(tasks, schedule[i][2]) < IndexOf(tasks, schedule[j][2])

C2_Witness ==
    /\ Produced
    /\ Len(schedule) = 2
    /\ Len(tasks) = 2
    /\ schedule[1][2] = tasks[2]
    /\ Rank(tasks[2]) < Rank(tasks[1])

Saved == pc = "loop" /\ pc' = "review"

\* C4: whatever log save_schedule finds (none, or one that parses),
\* load_schedule_history afterwards returns the records it would have
\* returned before, in their order, then the new record: one record more.
C4_AppendIsMonotonic ==
    [][ Saved =>
           LET before == LoadScheduleHistory(history_file)
               after == LoadScheduleHistory(history_file')
           IN  /\ Len(after) = Len(before) + 1
               /\ SubSeq(after, 1, Len(before)) = before
               /\ after[Len(after)] = HistoryRecord(DateOf(now), sched) ]_vars

C4_Witness ==
    /\ pc = "review"
    /\ pre.file.state = "valid"
    /\ Len(pre.file.records) = 1
    /\ Len(LoadScheduleHistory(history_file)) = 2
    /\ history_file.records[1] = pre.file.records[1]
    /\ history_file.records[2].tasks # << >>

\* C5: a pass of the loop calls send_notification only when the slot's start
\* minus 5 minutes is later than the clock, and calls it for no slot whose
\* reminder time is the clock's time or earlier.
C5_NotifyOnlyStrictlyAhead ==
    [][ /\ Len(notified') > Len(notified) =>
              /\ pc = "loop"
              /\ time_slot - ReminderLead > now
              /\ notified' = Append(notified,
                                    [task |-> Pending[idx + 1],
                                     time |-> Strftime(time_slot)])
        /\ (pc = "loop" /\ Len(sched') > Len(sched)
               /\ time_slot - ReminderLead <= now) => notified' = notified ]_vars

C5_Witness ==
    /\ pc = "loop"
    /\ now = AnchorHour * 60 - ReminderLead
    /\ Len(sched) = 2
    /\ Len(notified) = 1
    /\ notified[1].task = sched[2][2]

\* C6 as stated: after a calendar-sync failure the pass's schedule is in the
\* session and a record for it has been appended to the log.
C6_FailureStillStoresAndLogs ==
    error = "CalendarError" =>
       /\ "schedule" \in session_keys
       /\ schedule = sched
       /\ Len(LoadScheduleHistory(history_file)) = Len(LoadScheduleHistory(pre.file)) + 1

\* C6 as amended: a calendar-sync failure ends the pass at that call; the
\* session keeps the schedule it had before the pass (nothing is rolled back,
\* the pass's schedule is not stored) and the log is left as the pass found
\* it (no record is appended).
C6_FailureLeavesSessionAndLog ==
    error = "CalendarError" =>
       /\ pc = "halted"
       /\ ("schedule" \in session_keys) = pre.has
       /\ schedule = pre.schedule
       /\ history_file = pre.file

C6_Witness ==
    /\ error = "CalendarError"
    /\ pre.has
    /\ Len(sched) = 2
    /\ schedule # sched
    /\ Len(history_file.records) = 1

\* C7: the start times recorded in a produced schedule never decrease from
\* one slot to the next.
C7_RecordedStartsNeverDecrease ==
    Produced =>
       \A i \in 1..(Len(schedule) - 1) :
          ClockMinutes(schedule[i][1]) <= ClockMinutes(schedule[i + 1][1])

\* C8: the step that completes a scheduling pass appends one record, whose
\* tasks are the schedule the pass left in the session, behind the records
\* already in the log; no other step touches the log.
C8_OneRecordPerCompletedPass ==
    [][ IF Saved
        THEN /\ history_file'.state = "valid"
             /\ history_file'.records =
                   LoadScheduleHistory(history_file)
                      \o << [date |-> DateOf(now), tasks |-> schedule'] >>
        ELSE history_file' = history_file ]_vars

C8_Witness ==
    /\ Produced
    /\ Len(history_file.records) = 2
    /\ history_file.records[1].date = history_file.records[2].date
    /\ history_file.records[1].tasks # << >>
    /\ history_file.records[2].tasks = << >>
    /\ schedule = << >>

\* C9: when add_to_calendar fails on a slot the run stops there: the failed
\* call is the last one, made once, for the last slot listed; notifications
\* went out for earlier slots only; and nothing more is attempted in the run.
C9_CalendarFailureHaltsThePass ==
    /\ [](error = "CalendarError" =>
            /\ pc = "halted"
            /\ Len(calendar_calls) = Len(sched)
            /\ \A k \in DOMAIN calendar_calls :
                  /\ calendar_calls[k].task = sched[k][2]
                  /\ calendar_calls[k].ok = (k < Len(sched))
            /\ \A n \in DOMAIN notified :
                  \E k \in 1..(Len(sched) - 1) : notified[n].task = sched[k][2])
    /\ [][ (error = "CalendarError" /\ error' = "CalendarError") =>
              UNCHANGED << calendar_calls, notified, sched >> ]_vars

C9_Witness ==
    /\ error = "CalendarError"
    /\ Len(Pending) = 2
    /\ Len(sched) = 1
    /\ now > ClockStart

\* C10: when the log does not parse, save_schedule fails and leaves the file
\* as it was, and the session already holds the new schedule.
C10_CorruptLogKeptScheduleReplaced ==
    error = "HistoryError" =>
       /\ pc = "halted"
       /\ ~Parses(pre.file)
       /\ history_file = pre.file
       /\ "schedule" \in session_keys
       /\ schedule = sched

C10_Witness ==
    /\ error = "HistoryError"
    /\ pre.has
    /\ schedule # pre.schedule
    /\ Len(schedule) = 2
====
